---- MODULE Spec2Model ----
(***************************************************************************)
(* Model of src/support/Languages.cpp (Koder): the language catalog        *)
(* (LoadLanguages, SortAlphabetically, GetLanguageForExtension) and the    *)
(* language style resolver (ApplyLanguage).                                *)
(*                                                                         *)
(* YAML documents are modelled as trees of nodes.  A node is a record with *)
(* a field "kind":                                                         *)
(*   undef : the node operator[] returns for a missing key                 *)
(*   int   : a scalar whose text converts to int   (field n)               *)
(*   str   : a scalar whose text does not          (field s)               *)
(*   seq   : a sequence                            (field items)           *)
(*   map   : a map, pairs in document order        (field pairs)           *)
(***************************************************************************)
EXTENDS Integers, Sequences, FiniteSets, TLC

VARIABLES files, catalogFiles, editor, call, prevCall,
          sLanguages, sMenuItems, sExtensions, processed, loads, lookup, op

vars == <<files, catalogFiles, editor, call, prevCall,
          sLanguages, sMenuItems, sExtensions, processed, loads, lookup, op>>

applyVars == <<editor, call, prevCall>>
catalogVars == <<sLanguages, sMenuItems, sExtensions, processed, loads, lookup>>

-----------------------------------------------------------------------------
(* Bounds of the model *)

MaxLoads == 2
MaxGroupLen == 2

-----------------------------------------------------------------------------
(* Data directories, in the order DoInAllDataDirectories visits them:      *)
(* 1 system, 2 user, 3 system non-packaged, 4 user non-packaged.           *)

NumDataDirectories == 4
Layers == 1..NumDataDirectories

-----------------------------------------------------------------------------
(* std::map<int, int> and friends as functions *)

EmptyMap == [k \in {} |-> 0]

\* std::map::emplace / std::unordered_map::emplace: no effect on a present key
MapEmplace(m, k, v) == m @@ (k :> v)

\* operator[] followed by assignment
MapAssign(m, k, v) == (k :> v) @@ m

\* m.merge(source): moves into m the entries of source whose key m lacks
MapMergeSourceWins(m, source) == source @@ m
MapMergeDropsSource(m, source) == m
MapMerge(m, source) == m @@ source

\* substyleStartMap[key]: value-initialises a missing key to 0
MapSubscript(m, k) == IF k \in DOMAIN m THEN m[k] ELSE 0

-----------------------------------------------------------------------------
(* YAML nodes *)

\* the canonical decimal text of an integer
DigitText == <<"0", "1", "2", "3", "4", "5", "6", "7", "8", "9">>
RECURSIVE IntText(_)
IntText(n) == IF n < 0 THEN "-" \o IntText(0 - n)
              ELSE IF n < 10 THEN DigitText[n + 1]
              ELSE IntText(n \div 10) \o DigitText[(n % 10) + 1]

\* A scalar keeps its own text s; one that as<int>() accepts has kind "int"
\* and carries the value n that conversion gives (012 is text "012" with
\* value 10). A null (~, null or an empty value) is a node of its own.
Undef == [kind |-> "undef"]
NullNode == [kind |-> "null"]
IntScalar(t, i) == [kind |-> "int", n |-> i, s |-> t]
IntNode(i) == IntScalar(IntText(i), i)
StrNode(t) == [kind |-> "str", s |-> t]
SeqNode(xs) == [kind |-> "seq", items |-> xs]
MapNode(ps) == [kind |-> "map", pairs |-> ps]

NoExc == "none"

\* Node::operator bool
IsDefined(node) == node.kind # "undef"
IsMap(node) == node.kind = "map"
IsSequence(node) == node.kind = "seq"
IsScalar(node) == node.kind \in {"int", "str"}

\* Node::size
Size(node) == IF IsSequence(node) THEN Len(node.items)
              ELSE IF IsMap(node) THEN Len(node.pairs) ELSE 0

\* Node::as<int>: the exception it throws, or NoExc
AsIntExc(node) == IF ~IsDefined(node) THEN "InvalidNode"
                  ELSE IF node.kind = "int" THEN NoExc
                  ELSE "TypedBadConversion<int>"
AsInt(node) == node.n

\* Node::as<std::string>: every scalar converts to its own text and a
\* null to "null"
IsNull(node) == node.kind = "null"
AsStringExc(node) == IF ~IsDefined(node) THEN "InvalidNode"
                     ELSE IF IsScalar(node) \/ IsNull(node) THEN NoExc
                     ELSE "TypedBadConversion<string>"
AsString(node) == IF IsScalar(node) THEN node.s ELSE "null"

\* const Node::operator[](const char*): first pair whose key is that scalar
RECURSIVE FindKey(_, _, _)
FindKey(pairs, key, i) ==
    IF i > Len(pairs) THEN Undef
    ELSE IF IsScalar(pairs[i][1]) /\ pairs[i][1].s = key THEN pairs[i][2]
    ELSE FindKey(pairs, key, i + 1)

GetExc(node) == IF IsScalar(node) THEN "BadSubscript" ELSE NoExc
Get(node, key) == IF IsMap(node) THEN FindKey(node.pairs, key, 1) ELSE Undef

\* const Node::operator[](int) on a sequence
At(node, i) == IF IsSequence(node) /\ i + 1 <= Len(node.items)
               THEN node.items[i + 1] ELSE Undef

\* range-for over a node: map pairs in order; a sequence element has
\* invalid first and second; anything else is an empty range
Entries(node) ==
    IF IsMap(node) THEN node.pairs
    ELSE IF IsSequence(node) THEN [i \in 1..Len(node.items) |-> <<Undef, Undef>>]
    ELSE <<>>

-----------------------------------------------------------------------------
(* The editor behind Editor::SendMessage: lexer selection, properties,     *)
(* keyword sets, the sub-style allocator and the comment tokens.           *)

FirstSubstyle == 128

NoLexer == [byId |-> FALSE, id |-> 0, name |-> ""]

EditorInit ==
    [lexer |-> NoLexer, props |-> EmptyMap, keywords |-> EmptyMap,
     subNext |-> FirstSubstyle, allocs |-> {}, idents |-> EmptyMap,
     commentLine |-> "", commentBlock |-> <<"", "">>]

FreeSubstyles(ed) ==
    [ed EXCEPT !.subNext = FirstSubstyle, !.allocs = {}, !.idents = EmptyMap]
SetLexer(ed, id) == [ed EXCEPT !.lexer = [byId |-> TRUE, id |-> id, name |-> ""]]
SetLexerLanguage(ed, name) ==
    [ed EXCEPT !.lexer = [byId |-> FALSE, id |-> 0, name |-> name]]
SetProperty(ed, key, value) == [ed EXCEPT !.props = MapAssign(@, key, value)]
SetKeywords(ed, num, words) == [ed EXCEPT !.keywords = MapAssign(@, num, words)]
\* returns the first id of count contiguous sub-style ids
AllocateSubstylesStart(ed) == ed.subNext
AllocateSubstyles(ed, base, count) ==
    [ed EXCEPT !.subNext = @ + count,
               !.allocs = @ \cup {[base |-> base, start |-> ed.subNext, count |-> count]}]
SetIdentifiers(ed, style, text) == [ed EXCEPT !.idents = MapAssign(@, style, text)]
SetCommentLineToken(ed, token) == [ed EXCEPT !.commentLine = token]
SetCommentBlockTokens(ed, open, close) == [ed EXCEPT !.commentBlock = <<open, close>>]

-----------------------------------------------------------------------------
(* Execution context of one ApplyLanguage call: the editor, the commands   *)
(* sent so far (each tagged with the data directory whose document sent    *)
(* it, 0 for ApplyLanguage itself) and the exception in flight, if any;    *)

\* starts is substyleStartMap and map is styleMap of _ApplyLanguage.
Ctx(ed, tr, layer) ==
    [ed |-> ed, tr |-> tr, layer |-> layer, exc |-> NoExc,
     starts |-> EmptyMap, map |-> EmptyMap]
Throw(ctx, e) == [ctx EXCEPT !.exc = e]
Sent(ctx, ed, c) == [ctx EXCEPT !.ed = ed, !.tr = Append(@, c)]

\* lines 126-133 with the lexer always selected by name
ApplyLexerByNameOnly(ctx, language) ==
    LET lexer == Get(language, "lexer") IN
    IF AsStringExc(lexer) # NoExc
    THEN Throw(ctx, AsStringExc(lexer))
    ELSE Sent(ctx, SetLexerLanguage(ctx.ed, AsString(lexer)),
              [layer |-> ctx.layer, cmd |-> "SCI_SETLEXERLANGUAGE",
               name |-> AsString(lexer)])

\* lines 126-133: the lexer selector
ApplyLexer(ctx, language) ==
    LET lexer == Get(language, "lexer") IN
    IF AsIntExc(lexer) = NoExc
    THEN Sent(ctx, SetLexer(ctx.ed, AsInt(lexer)),
              [layer |-> ctx.layer, cmd |-> "SCI_SETLEXER", id |-> AsInt(lexer)])
    ELSE IF AsIntExc(lexer) # "TypedBadConversion<int>"
    THEN Throw(ctx, AsIntExc(lexer))
    ELSE IF AsStringExc(lexer) # NoExc
    THEN Throw(ctx, AsStringExc(lexer))
    ELSE Sent(ctx, SetLexerLanguage(ctx.ed, AsString(lexer)),
              [layer |-> ctx.layer, cmd |-> "SCI_SETLEXERLANGUAGE",
               name |-> AsString(lexer)])

\* lines 135-139 with the loop left after its first entry
ApplyPropertiesFirstOnly(ctx, entries, i) ==
    IF ctx.exc # NoExc \/ i > Len(entries) THEN ctx
    ELSE LET first == entries[i][1]
             second == entries[i][2]
         IN  IF AsStringExc(first) # NoExc THEN Throw(ctx, AsStringExc(first))
             ELSE IF AsStringExc(second) # NoExc THEN Throw(ctx, AsStringExc(second))
             ELSE Sent(ctx, SetProperty(ctx.ed, AsString(first), AsString(second)),
                       [layer |-> ctx.layer, cmd |-> "SCI_SETPROPERTY",
                        key |-> AsString(first), value |-> AsString(second)])

\* lines 135-139
RECURSIVE ApplyProperties(_, _, _)
ApplyProperties(ctx, entries, i) ==
    IF ctx.exc # NoExc \/ i > Len(entries) THEN ctx
    ELSE LET first == entries[i][1]
             second == entries[i][2]
         IN  IF AsStringExc(first) # NoExc THEN Throw(ctx, AsStringExc(first))
             ELSE IF AsStringExc(second) # NoExc THEN Throw(ctx, AsStringExc(second))
             ELSE ApplyProperties(
                    Sent(ctx, SetProperty(ctx.ed, AsString(first), AsString(second)),
                         [layer |-> ctx.layer, cmd |-> "SCI_SETPROPERTY",
                          key |-> AsString(first), value |-> AsString(second)]),
                    entries, i + 1)

\* lines 141-145
RECURSIVE ApplyKeywords(_, _, _)
ApplyKeywords(ctx, entries, i) ==
    IF ctx.exc # NoExc \/ i > Len(entries) THEN ctx
    ELSE LET first == entries[i][1]
             second == entries[i][2]
         IN  IF AsIntExc(first) # NoExc THEN Throw(ctx, AsIntExc(first))
             ELSE IF AsStringExc(second) # NoExc THEN Throw(ctx, AsStringExc(second))
             ELSE ApplyKeywords(
                    Sent(ctx, SetKeywords(ctx.ed, AsInt(first), AsString(second)),
                         [layer |-> ctx.layer, cmd |-> "SCI_SETKEYWORDS",
                          num |-> AsInt(first), words |-> AsString(second)]),
                    entries, i + 1)

\* lines 159-163: one SCI_SETIDENTIFIERS per element of the group
RECURSIVE ApplyIdentifierGroupOffByOne(_, _, _, _)
ApplyIdentifierGroupOffByOne(ctx, group, start, i) ==
    IF ctx.exc # NoExc \/ i >= Size(group) THEN ctx
    ELSE LET idents == At(group, i) IN
         IF AsStringExc(idents) # NoExc THEN Throw(ctx, AsStringExc(idents))
         ELSE ApplyIdentifierGroupOffByOne(
                Sent(ctx, SetIdentifiers(ctx.ed, start + i + 1, AsString(idents)),
                     [layer |-> ctx.layer, cmd |-> "SCI_SETIDENTIFIERS",
                      style |-> start + i + 1, text |-> AsString(idents)]),
                group, start, i + 1)

RECURSIVE ApplyIdentifierGroup(_, _, _, _)
ApplyIdentifierGroup(ctx, group, start, i) ==
    IF ctx.exc # NoExc \/ i >= Size(group) THEN ctx
    ELSE LET idents == At(group, i) IN
         IF AsStringExc(idents) # NoExc THEN Throw(ctx, AsStringExc(idents))
         ELSE ApplyIdentifierGroup(
                Sent(ctx, SetIdentifiers(ctx.ed, start + i, AsString(idents)),
                     [layer |-> ctx.layer, cmd |-> "SCI_SETIDENTIFIERS",
                      style |-> start + i, text |-> AsString(idents)]),
                group, start, i + 1)

\* lines 150-164
RECURSIVE ApplyIdentifiersAllocatingAll(_, _, _)
ApplyIdentifiersAllocatingAll(ctx, entries, j) ==
    IF ctx.exc # NoExc \/ j > Len(entries) THEN ctx
    ELSE LET first == entries[j][1]
             second == entries[j][2]
         IN  IF AsIntExc(first) # NoExc THEN Throw(ctx, AsIntExc(first))
             ELSE LET substyleId == AsInt(first)
                      start == AllocateSubstylesStart(ctx.ed)
                      allocated ==
                          [Sent(ctx, AllocateSubstyles(ctx.ed, substyleId, Size(second)),
                                [layer |-> ctx.layer, cmd |-> "SCI_ALLOCATESUBSTYLES",
                                 base |-> substyleId, count |-> Size(second),
                                 start |-> start])
                           EXCEPT !.starts = MapEmplace(@, substyleId, start)]
                  IN  ApplyIdentifiersAllocatingAll(
                        ApplyIdentifierGroup(allocated, second, start, 0),
                        entries, j + 1)

RECURSIVE ApplyIdentifiers(_, _, _)
ApplyIdentifiers(ctx, entries, j) ==
    IF ctx.exc # NoExc \/ j > Len(entries) THEN ctx
    ELSE LET first == entries[j][1]
             second == entries[j][2]
         IN  IF ~IsSequence(second) THEN ApplyIdentifiers(ctx, entries, j + 1)
             ELSE IF AsIntExc(first) # NoExc THEN Throw(ctx, AsIntExc(first))
             ELSE LET substyleId == AsInt(first)
                      start == AllocateSubstylesStart(ctx.ed)
                      allocated ==
                          [Sent(ctx, AllocateSubstyles(ctx.ed, substyleId, Size(second)),
                                [layer |-> ctx.layer, cmd |-> "SCI_ALLOCATESUBSTYLES",
                                 base |-> substyleId, count |-> Size(second),
                                 start |-> start])
                           EXCEPT !.starts = MapEmplace(@, substyleId, start)]
                  IN  ApplyIdentifiers(
                        ApplyIdentifierGroup(allocated, second, start, 0),
                        entries, j + 1)

\* lines 169-171
ApplyCommentLine(ctx, line) ==
    IF ~IsDefined(line) THEN ctx
    ELSE IF AsStringExc(line) # NoExc THEN Throw(ctx, AsStringExc(line))
    ELSE Sent(ctx, SetCommentLineToken(ctx.ed, AsString(line)),
              [layer |-> ctx.layer, cmd |-> "SetCommentLineToken",
               token |-> AsString(line)])

\* lines 174-175: block[0].as<std::string>() and block[1].as<std::string>()
\* are the two arguments of one call, evaluated in an order the language
\* leaves to the build; argOrder is the index evaluated first.
BlockArgOrders == {0, 1}

\* lines 172-175
ApplyCommentBlock(ctx, block, argOrder) ==
    IF ctx.exc # NoExc THEN ctx
    ELSE IF ~(IsDefined(block) /\ IsSequence(block)) THEN ctx
    ELSE IF AsStringExc(At(block, argOrder)) # NoExc
    THEN Throw(ctx, AsStringExc(At(block, argOrder)))
    ELSE IF AsStringExc(At(block, 1 - argOrder)) # NoExc
    THEN Throw(ctx, AsStringExc(At(block, 1 - argOrder)))
    ELSE Sent(ctx,
              SetCommentBlockTokens(ctx.ed, AsString(At(block, 0)),
                                    AsString(At(block, 1))),
              [layer |-> ctx.layer, cmd |-> "SetCommentBlockTokens",
               open |-> AsString(At(block, 0)),
               close |-> AsString(At(block, 1))])

\* lines 167-176
ApplyComments(ctx, language, argOrder) ==
    LET comments == Get(language, "comments") IN
    IF ctx.exc # NoExc \/ ~IsDefined(comments) THEN ctx
    ELSE IF GetExc(comments) # NoExc THEN Throw(ctx, GetExc(comments))
    ELSE ApplyCommentBlock(ApplyCommentLine(ctx, Get(comments, "line")),
                           Get(comments, "block"), argOrder)

\* line 181: styles.as<std::map<int, int>>(), a later duplicate key wins
RECURSIVE DecodeStyles(_, _, _)
DecodeStyles(ctx, pairs, i) ==
    IF ctx.exc # NoExc \/ i > Len(pairs) THEN ctx
    ELSE LET first == pairs[i][1]
             second == pairs[i][2]
         IN  IF AsIntExc(first) # NoExc THEN Throw(ctx, AsIntExc(first))
             ELSE IF AsIntExc(second) # NoExc THEN Throw(ctx, AsIntExc(second))
             ELSE DecodeStyles(
                    [ctx EXCEPT !.map = MapAssign(@, AsInt(first), AsInt(second))],
                    pairs, i + 1)

\* lines 179-182
ApplyStyles(ctx, language) ==
    LET styles == Get(language, "styles") IN
    IF ctx.exc # NoExc \/ ~IsDefined(styles) THEN ctx
    ELSE IF ~IsMap(styles) THEN Throw(ctx, "TypedBadConversion<map>")
    ELSE DecodeStyles(ctx, styles.pairs, 1)

\* lines 189-193: the entries of one substyle group
RECURSIVE ApplySubstyleGroup(_, _, _, _)
ApplySubstyleGroup(ctx, first, group, i) ==
    IF ctx.exc # NoExc \/ i >= Size(group) THEN ctx
    ELSE LET styleId == At(group, i) IN
         IF AsIntExc(first) # NoExc THEN Throw(ctx, AsIntExc(first))
         ELSE LET substyleStart == MapSubscript(ctx.starts, AsInt(first))
                  looked == [ctx EXCEPT !.starts =
                                MapEmplace(@, AsInt(first), substyleStart)]
              IN  IF AsIntExc(styleId) # NoExc
                  THEN Throw(looked, AsIntExc(styleId))
                  ELSE ApplySubstyleGroup(
                         [looked EXCEPT !.map =
                             MapEmplace(@, substyleStart + i, AsInt(styleId))],
                         first, group, i + 1)

\* lines 185-194
RECURSIVE ApplySubstyles(_, _, _)
ApplySubstyles(ctx, entries, j) ==
    IF ctx.exc # NoExc \/ j > Len(entries) THEN ctx
    ELSE IF ~IsSequence(entries[j][2]) THEN ApplySubstyles(ctx, entries, j + 1)
    ELSE ApplySubstyles(
           ApplySubstyleGroup(ctx, entries[j][1], entries[j][2], 0),
           entries, j + 1)

\* The part of _ApplyLanguage that follows YAML::LoadFile (lines 126-196)
\* Each step leaves a context with an exception in flight as it is.
ApplyDocument(ctx, language, argOrder) ==
    LET identifiers == Get(language, "identifiers")
        substyles == Get(language, "substyles")
    IN  ApplySubstyles(
          ApplyStyles(
            ApplyComments(
              ApplyIdentifiers(
                ApplyKeywords(
                  ApplyProperties(
                    ApplyLexer(ctx, language),
                    Entries(Get(language, "properties")), 1),
                  Entries(Get(language, "keywords")), 1),
                IF IsDefined(identifiers) /\ IsMap(identifiers)
                THEN Entries(identifiers) ELSE <<>>, 1),
              language, argOrder),
            language),
          IF IsDefined(substyles) /\ IsMap(substyles)
          THEN Entries(substyles) ELSE <<>>, 1)

-----------------------------------------------------------------------------
(* Files of a data directory.  YAML::LoadFile throws BadFile when the file *)
(* cannot be opened and ParserException when its text is not YAML.         *)

AbsentFile == [st |-> "absent"]
UnparseableFile == [st |-> "unparseable"]
DocFile(node) == [st |-> "doc", node |-> node]

LoadFileExc(file) == IF file.st = "absent" THEN "BadFile"
                     ELSE IF file.st = "unparseable" THEN "ParserException"
                     ELSE NoExc

\* Languages::_ApplyLanguage (lines 118-197) on the file of one data directory
_ApplyLanguage(ed, tr, layer, file, argOrder) ==
    IF LoadFileExc(file) # NoExc THEN Throw(Ctx(ed, tr, layer), LoadFileExc(file))
    ELSE IF GetExc(file.node) # NoExc THEN Throw(Ctx(ed, tr, layer), GetExc(file.node))
    ELSE ApplyDocument(Ctx(ed, tr, layer), file.node, argOrder)

\* the handlers "catch (YAML::BadFile &) {}" of lines 91 and 206
CaughtAnyException(e) == TRUE
CaughtNothing(e) == FALSE
Caught(e) == e = "BadFile"

\* line 84
ResetSubstylesOmitted(ed, tr) == Ctx(ed, tr, 0)
ResetSubstylesTwice(ed, tr) ==
    Sent(Sent(Ctx(ed, tr, 0), FreeSubstyles(ed),
              [layer |-> 0, cmd |-> "SCI_FREESUBSTYLES"]),
         FreeSubstyles(ed), [layer |-> 0, cmd |-> "SCI_FREESUBSTYLES"])
ResetSubstyles(ed, tr) ==
    Sent(Ctx(ed, tr, 0), FreeSubstyles(ed), [layer |-> 0, cmd |-> "SCI_FREESUBSTYLES"])

\* what a data directory contributed to a call
LayerOutcome(st, map) == [st |-> st, map |-> map]
NotReached == LayerOutcome("unreached", EmptyMap)

\* DoInAllDataDirectories (lines 42-53) running the lambda of lines 86-92:
\* acc holds the editor, the commands, styleMapping, the exception that
\* left the lambda and what each directory contributed.
\* lines 87-91: the lambda, given the context _ApplyLanguage ended in
MergeLayer(acc, ctx, layer) ==
    IF ctx.exc = NoExc
    THEN [acc EXCEPT !.ed = ctx.ed, !.tr = ctx.tr,
                     !.styleMapping = MapMerge(ctx.map, @),
                     !.layers[layer] = LayerOutcome("ok", ctx.map)]
    ELSE IF Caught(ctx.exc)
    THEN [acc EXCEPT !.ed = ctx.ed, !.tr = ctx.tr,
                     !.layers[layer] = LayerOutcome("skipped", EmptyMap)]
    ELSE [acc EXCEPT !.ed = ctx.ed, !.tr = ctx.tr,
                     !.exc = ctx.exc, !.excLayer = layer,
                     !.layers[layer] = LayerOutcome("threw", EmptyMap)]

RECURSIVE DoInAllDataDirectories(_, _, _, _)
DoInAllDataDirectories(acc, dirFiles, layer, argOrder) ==
    IF acc.exc # NoExc \/ layer > NumDataDirectories THEN acc
    ELSE DoInAllDataDirectories(
           MergeLayer(acc,
                      _ApplyLanguage(acc.ed, acc.tr, layer, dirFiles[layer],
                                     argOrder),
                      layer),
           dirFiles, layer + 1, argOrder)

\* Languages::ApplyLanguage (lines 81-94) as a function of the editor and
\* of the four files of the language
ApplyLanguageReturn(done, liveAtFirst) ==
    [ed |-> done.ed, trace |-> done.tr, layers |-> done.layers,
     exc |-> done.exc, excLayer |-> done.excLayer,
     map |-> IF done.exc = NoExc THEN done.styleMapping ELSE EmptyMap,
     liveAtFirst |-> liveAtFirst]

ApplyLanguageLayers(reset, dirFiles, argOrder) ==
    ApplyLanguageReturn(
        DoInAllDataDirectories(
            [ed |-> reset.ed, tr |-> reset.tr, styleMapping |-> EmptyMap,
             exc |-> NoExc, excLayer |-> 0,
             layers |-> [l \in Layers |-> NotReached]],
            dirFiles, 1, argOrder),
        reset.ed.allocs)

ApplyLanguageRun(ed, dirFiles, argOrder) ==
    ApplyLanguageLayers(ResetSubstyles(ed, <<>>), dirFiles, argOrder)

NoCall == [lang |-> "", files |-> [l \in Layers |-> AbsentFile], trace |-> <<>>,
           layers |-> [l \in Layers |-> NotReached],
           exc |-> NoExc, excLayer |-> 0, map |-> EmptyMap, liveAtFirst |-> {}]

Langs == {"cpp", "python"}

\* ApplyLanguage(editor, lang): call records the call and what it returned
\* (exc = NoExc: the map; otherwise the exception that reached the caller).
ApplyLanguage(lang) ==
    /\ \E r \in {ApplyLanguageRun(editor, files[lang], argOrder) :
                      argOrder \in BlockArgOrders} :
        /\ editor' = r.ed
        /\ call' = [lang |-> lang, files |-> files[lang], trace |-> r.trace,
                    layers |-> r.layers, exc |-> r.exc, excLayer |-> r.excLayer,
                    map |-> r.map, liveAtFirst |-> r.liveAtFirst]
    /\ prevCall' = call
    /\ op' = [name |-> "ApplyLanguage", exc |-> NoExc]
    /\ UNCHANGED <<files, catalogFiles, catalogVars>>

-----------------------------------------------------------------------------
(* The language catalog: sLanguages, sMenuItems, sExtensions (lines 30-32) *)

\* as<std::vector<std::string>>: the exception it throws, or NoExc
RECURSIVE AsStringVectorItemsExc(_, _)
AsStringVectorItemsExc(items, i) ==
    IF i > Len(items) THEN NoExc
    ELSE IF AsStringExc(items[i]) # NoExc THEN AsStringExc(items[i])
    ELSE AsStringVectorItemsExc(items, i + 1)

AsStringVectorExc(node) ==
    IF ~IsDefined(node) THEN "InvalidNode"
    ELSE IF ~IsSequence(node) THEN "TypedBadConversion<vector>"
    ELSE AsStringVectorItemsExc(node.items, 1)
AsStringVector(node) == [i \in 1..Len(node.items) |-> AsString(node.items[i])]

\* lines 222-224
RECURSIVE SetExtensionsKeepingFirst(_, _, _, _)
SetExtensionsKeepingFirst(exts, extensions, name, i) ==
    IF i > Len(extensions) THEN exts
    ELSE SetExtensionsKeepingFirst(MapEmplace(exts, extensions[i], name),
                                   extensions, name, i + 1)

RECURSIVE SetExtensionsReplacingSet(_, _, _, _)
SetExtensionsReplacingSet(exts, extensions, name, i) ==
    LET kept == {e \in DOMAIN exts : exts[e] # name}
        listed == {extensions[k] : k \in 1..Len(extensions)}
    IN  [e \in kept \cup listed |-> IF e \in listed THEN name ELSE exts[e]]

RECURSIVE SetExtensions(_, _, _, _)
SetExtensions(exts, extensions, name, i) ==
    IF i > Len(extensions) THEN exts
    ELSE SetExtensions(MapAssign(exts, extensions[i], name), extensions, name, i + 1)

\* line 225: std::find(...) != end()
ContainsNever(seq, x) == FALSE
ContainsAlways(seq, x) == TRUE
Contains(seq, x) == \E i \in 1..Len(seq) : seq[i] = x

\* lines 218-228: cat holds the three static members, the exception in
\* flight and the log of the entries applied so far
RECURSIVE LoadEntries(_, _, _, _)
LoadEntries(cat, entries, layer, i) ==
    IF cat.exc # NoExc \/ i > Len(entries) THEN cat
    ELSE LET first == entries[i][1]
             second == entries[i][2]
         IN  IF AsStringExc(first) # NoExc
             THEN [cat EXCEPT !.exc = AsStringExc(first)]
             ELSE IF GetExc(second) # NoExc
             THEN [cat EXCEPT !.exc = GetExc(second)]
             ELSE IF AsStringExc(Get(second, "name")) # NoExc
             THEN [cat EXCEPT !.exc = AsStringExc(Get(second, "name"))]
             ELSE IF AsStringVectorExc(Get(second, "extensions")) # NoExc
             THEN [cat EXCEPT !.exc = AsStringVectorExc(Get(second, "extensions"))]
             ELSE LET name == AsString(first)
                      menuitem == AsString(Get(second, "name"))
                      extensions == AsStringVector(Get(second, "extensions"))
                  IN  LoadEntries(
                        [cat EXCEPT
                           !.exts = SetExtensions(@, extensions, name, 1),
                           !.langs = IF Contains(@, name) THEN @ ELSE Append(@, name),
                           !.menu = MapAssign(@, name, menuitem),
                           !.log = Append(@, [name |-> name, menuitem |-> menuitem,
                                              extensions |-> extensions,
                                              layer |-> layer])],
                        entries, layer, i + 1)

\* Languages::_LoadLanguages (lines 211-229)
_LoadLanguages(cat, layer, file) ==
    IF LoadFileExc(file) # NoExc THEN [cat EXCEPT !.exc = LoadFileExc(file)]
    ELSE LoadEntries(cat, Entries(file.node), layer, 1)

\* lines 204-206
CatchLoad(cat) == IF cat.exc # NoExc /\ Caught(cat.exc)
                  THEN [cat EXCEPT !.exc = NoExc] ELSE cat

\* DoInAllDataDirectories running the lambda of lines 203-207
RECURSIVE LoadAllDataDirectories(_, _, _)
LoadAllDataDirectories(cat, dirFiles, layer) ==
    IF cat.exc # NoExc \/ layer > NumDataDirectories THEN cat
    ELSE LoadAllDataDirectories(
           CatchLoad(_LoadLanguages(cat, layer, dirFiles[layer])),
           dirFiles, layer + 1)

\* Languages::LoadLanguages (lines 200-208)
LoadLanguages ==
    /\ loads < MaxLoads
    /\ \E c \in {LoadAllDataDirectories(
                    [exts |-> sExtensions, langs |-> sLanguages, menu |-> sMenuItems,
                     exc |-> NoExc, log |-> processed],
                    catalogFiles, 1)} :
           /\ sExtensions' = c.exts
           /\ sLanguages' = c.langs
           /\ sMenuItems' = c.menu
           /\ processed' = c.log
           /\ op' = [name |-> "LoadLanguages", exc |-> c.exc]
    /\ loads' = loads + 1
    /\ UNCHANGED <<files, catalogFiles, applyVars, lookup>>

\* std::string operator< on the strings the model uses, in byte order
StringOrder == <<"", "c", "cc", "cpp", "h", "py", "python", "text">>
StringRank(s) == CHOOSE i \in 1..Len(StringOrder) : StringOrder[i] = s
StringLess(a, b) == StringRank(a) < StringRank(b)

\* std::sort with operator<
RECURSIVE InsertSorted(_, _)
InsertSorted(sorted, x) ==
    IF sorted = <<>> THEN <<x>>
    ELSE IF StringLess(x, Head(sorted)) THEN <<x>> \o sorted
    ELSE <<Head(sorted)>> \o InsertSorted(Tail(sorted), x)

RECURSIVE Sort(_)
Sort(seq) == IF seq = <<>> THEN <<>>
             ELSE InsertSorted(Sort(SubSeq(seq, 1, Len(seq) - 1)), seq[Len(seq)])

\* Languages::SortAlphabetically (lines 70-74)
SortAlphabetically ==
    /\ sLanguages' = Sort(sLanguages)
    /\ op' = [name |-> "SortAlphabetically", exc |-> NoExc]
    /\ UNCHANGED <<files, catalogFiles, applyVars, sMenuItems, sExtensions,
                   processed, loads, lookup>>

Extensions == {"h", "cc", "py", "text"}

NoLookup == [ext |-> "", lang |-> "", found |-> FALSE]

\* Languages::GetLanguageForExtension (lines 58-67)
GetLanguageForExtensionSubscripting(ext) ==
    /\ sExtensions' = IF ext \in DOMAIN sExtensions THEN sExtensions
                      ELSE MapAssign(sExtensions, ext, "")
    /\ lookup' = [ext |-> ext, lang |-> sExtensions'[ext],
                  found |-> ext \in DOMAIN sExtensions]
    /\ op' = [name |-> "GetLanguageForExtension", exc |-> NoExc]
    /\ UNCHANGED <<files, catalogFiles, applyVars, sLanguages, sMenuItems,
                   processed, loads>>

GetLanguageForExtension(ext) ==
    /\ lookup' = IF ext \in DOMAIN sExtensions
                 THEN [ext |-> ext, lang |-> sExtensions[ext], found |-> TRUE]
                 ELSE [ext |-> ext, lang |-> "text", found |-> FALSE]
    /\ op' = [name |-> "GetLanguageForExtension", exc |-> NoExc]
    /\ UNCHANGED <<files, catalogFiles, applyVars, sLanguages, sMenuItems,
                   sExtensions, processed, loads>>

-----------------------------------------------------------------------------
(* Documents the model runs on *)

Field(name, node) == <<StrNode(name), node>>
IntMap(ps) == MapNode([i \in 1..Len(ps) |-> <<IntNode(ps[i][1]), IntNode(ps[i][2])>>])
IntSeq(xs) == SeqNode([i \in 1..Len(xs) |-> IntNode(xs[i])])
StrSeq(xs) == SeqNode([i \in 1..Len(xs) |-> StrNode(xs[i])])
Group(class, node) == <<IntNode(class), node>>
Doc(fields) == DocFile(MapNode(fields))

NoFiles == [l \in Layers |-> AbsentFile]

\* {lexer: 1, styles: {0: 10, 1: 11}}
DocPlain == Doc(<<Field("lexer", IntNode(1)),
                  Field("styles", IntMap(<<<<0, 10>>, <<1, 11>>>>))>>)
\* {lexer: cpp, styles: {1: 99}, identifiers: {20: [a, b]}, substyles: {20: [50, 51]}}
DocSub == Doc(<<Field("lexer", StrNode("cpp")),
                Field("styles", IntMap(<<<<1, 99>>>>)),
                Field("identifiers", MapNode(<<Group(20, StrSeq(<<"a", "b">>))>>)),
                Field("substyles", MapNode(<<Group(20, IntSeq(<<50, 51>>))>>))>>)
\* {lexer: 1, styles: {0: 12, 128: 13}}
DocHigh == Doc(<<Field("lexer", IntNode(1)),
                 Field("styles", IntMap(<<<<0, 12>>, <<128, 13>>>>))>>)
\* {lexer: 2, identifiers: {20: [c]}, substyles: {20: [60], 21: [61]}}
DocLoose == Doc(<<Field("lexer", IntNode(2)),
                  Field("identifiers", MapNode(<<Group(20, StrSeq(<<"c">>))>>)),
                  Field("substyles", MapNode(<<Group(20, IntSeq(<<60>>)),
                                               Group(21, IntSeq(<<61>>))>>))>>)
\* {lexer: 1}
DocBare == Doc(<<Field("lexer", IntNode(1))>>)
\* {styles: {0: 14}}: no lexer
DocNoLexer == Doc(<<Field("styles", IntMap(<<<<0, 14>>>>))>>)
\* {lexer: [1], styles: {1: 15}}: a lexer that is neither int nor string
DocSeqLexer == Doc(<<Field("lexer", IntSeq(<<1>>)),
                     Field("styles", IntMap(<<<<1, 15>>>>))>>)

\* {lexer: ~, styles: {1: 16}}: a null lexer, which converts to "null"
DocNullLexer == Doc(<<Field("lexer", NullNode),
                      Field("styles", IntMap(<<<<1, 16>>>>))>>)

MergeFiles == {AbsentFile, DocPlain, DocSub, DocHigh, DocLoose, DocBare}
ErrorFiles == {AbsentFile, UnparseableFile, DocPlain, DocSub, DocNoLexer,
               DocSeqLexer, DocNullLexer}

InitProgram ==
    /\ editor = EditorInit
    /\ call = NoCall
    /\ prevCall = NoCall
    /\ sLanguages = <<>>
    /\ sMenuItems = EmptyMap
    /\ sExtensions = EmptyMap
    /\ processed = <<>>
    /\ loads = 0
    /\ lookup = NoLookup
    /\ op = [name |-> "", exc |-> NoExc]

NextApply == \E lang \in Langs : ApplyLanguage(lang)

\* ApplyLanguage on well-formed documents
InitMerge ==
    /\ InitProgram
    /\ \E cpp \in [Layers -> MergeFiles] :
          files = [lang \in Langs |-> IF lang = "cpp" THEN cpp ELSE NoFiles]
    /\ catalogFiles = NoFiles
SpecMerge == InitMerge /\ [][NextApply]_vars

\* ApplyLanguage on absent, unparseable and malformed documents
InitError ==
    /\ InitProgram
    /\ \E cpp \in [Layers -> ErrorFiles] :
          files = [lang \in Langs |-> IF lang = "cpp" THEN cpp ELSE NoFiles]
    /\ catalogFiles = NoFiles
SpecError == InitError /\ [][NextApply]_vars

\* ApplyLanguage on absent, well-formed and malformed documents that parse
SchemaFiles == {AbsentFile, DocPlain, DocSub, DocBare, DocNoLexer, DocSeqLexer}
InitSchema ==
    /\ InitProgram
    /\ \E cpp \in [Layers -> SchemaFiles] :
          files = [lang \in Langs |-> IF lang = "cpp" THEN cpp ELSE NoFiles]
    /\ catalogFiles = NoFiles
SpecSchema == InitSchema /\ [][NextApply]_vars

\* Documents for sub-style addressing: class 20 with an identifier group of
\* idLen strings and a substyle group of subLen style ids (-1: no group),
\* with or without a direct style on the first sub-style id.
IdentText == <<"a", "b", "c", "d">>
SubstyleDoc(direct, idLen, subLen) ==
    Doc(<<Field("lexer", IntNode(1)),
          Field("styles", IF direct THEN IntMap(<<<<FirstSubstyle, 13>>>>) ELSE Undef),
          Field("identifiers",
                IF idLen < 0 THEN Undef
                ELSE MapNode(<<Group(20, StrSeq([i \in 1..idLen |-> IdentText[i]]))>>)),
          Field("substyles",
                IF subLen < 0 THEN Undef
                ELSE MapNode(<<Group(20, IntSeq([i \in 1..subLen |-> 49 + i]))>>))>>)

\* {lexer: 1, identifiers: {20: a, 21: [b]}, substyles: {21: [62]}}: the
\* value at class 20 is a scalar, not a sequence
DocScalarGroup ==
    Doc(<<Field("lexer", IntNode(1)),
          Field("identifiers", MapNode(<<Group(20, StrNode("a")),
                                         Group(21, StrSeq(<<"b">>))>>)),
          Field("substyles", MapNode(<<Group(21, IntSeq(<<62>>))>>))>>)

SubstyleFiles ==
    {AbsentFile} \cup
    {SubstyleDoc(direct, idLen, subLen) :
        direct \in BOOLEAN, idLen \in -1..MaxGroupLen, subLen \in -1..MaxGroupLen}

InitSubstyle ==
    /\ InitProgram
    /\ \E low \in [1..2 -> SubstyleFiles],
          third \in {AbsentFile, DocLoose}, fourth \in {AbsentFile, DocScalarGroup} :
          files = [lang \in Langs |->
                     IF lang = "cpp"
                     THEN [l \in Layers |-> IF l <= 2 THEN low[l]
                                            ELSE IF l = 3 THEN third ELSE fourth]
                     ELSE NoFiles]
    /\ catalogFiles = NoFiles
SpecSubstyle == InitSubstyle /\ [][NextApply]_vars

\* {lexer: python, identifiers: {20: [x]}, substyles: {20: [70]}, styles: {1: 71}}
DocPySub == Doc(<<Field("lexer", StrNode("python")),
                  Field("identifiers", MapNode(<<Group(20, StrSeq(<<"x">>))>>)),
                  Field("substyles", MapNode(<<Group(20, IntSeq(<<70>>))>>)),
                  Field("styles", IntMap(<<<<1, 71>>>>))>>)

\* ApplyLanguage for one language, then for another, on the same editor
InitReset ==
    /\ InitProgram
    /\ \E cpp \in [Layers -> {AbsentFile, DocSub, DocLoose}],
          python \in [Layers -> {AbsentFile, DocPySub, DocHigh}] :
          files = [lang \in Langs |-> IF lang = "cpp" THEN cpp ELSE python]
    /\ catalogFiles = NoFiles
SpecReset == InitReset /\ [][NextApply]_vars

-----------------------------------------------------------------------------
(* Catalog documents *)

CatalogEntry(id, name, extensions) ==
    <<StrNode(id), MapNode(<<Field("name", StrNode(name)),
                             Field("extensions", StrSeq(extensions))>>)>>

\* cpp: {name: C++, extensions: [h, cc]}
CatalogCpp == DocFile(MapNode(<<CatalogEntry("cpp", "C++", <<"h", "cc">>)>>))
\* python: {name: Python, extensions: [py]}; c: {name: C, extensions: [h]}
CatalogPythonC == DocFile(MapNode(<<CatalogEntry("python", "Python", <<"py">>),
                                    CatalogEntry("c", "C", <<"h">>)>>))
\* cpp: {name: C/C++, extensions: [cc]}
CatalogCppNarrow == DocFile(MapNode(<<CatalogEntry("cpp", "C/C++", <<"cc">>)>>))
\* c: {name: C, extensions: [h]}; cpp: {name: C++}; python: {name: Py, extensions: [py]}
CatalogBroken ==
    DocFile(MapNode(<<CatalogEntry("c", "C", <<"h">>),
                      <<StrNode("cpp"), MapNode(<<Field("name", StrNode("C++"))>>)>>,
                      CatalogEntry("python", "Py", <<"py">>)>>))

CatalogFiles == {AbsentFile, UnparseableFile, CatalogCpp, CatalogPythonC,
                 CatalogCppNarrow, CatalogBroken}

InitCatalog ==
    /\ InitProgram
    /\ files = [lang \in Langs |-> NoFiles]
    /\ catalogFiles \in [Layers -> CatalogFiles]

NextCatalog ==
    \/ LoadLanguages
    \/ SortAlphabetically
    \/ \E ext \in Extensions : GetLanguageForExtension(ext)

SpecCatalog == InitCatalog /\ [][NextCatalog]_vars

\* LoadLanguages runs and lookups, without SortAlphabetically
NextLoad ==
    \/ LoadLanguages
    \/ \E ext \in Extensions : GetLanguageForExtension(ext)

SpecLoad == InitCatalog /\ [][NextLoad]_vars

-----------------------------------------------------------------------------
(* Properties of ApplyLanguage *)

Applied == op.name = "ApplyLanguage"
Returned == Applied /\ call.exc = NoExc

Max(S) == CHOOSE x \in S : \A y \in S : y <= x
Min(S) == CHOOSE x \in S : \A y \in S : x <= y

\* the data directories whose document _ApplyLanguage turned into a style map
OkLayers == {l \in Layers : call.layers[l].st = "ok"}
LayersWithKey(k) == {l \in OkLayers : k \in DOMAIN call.layers[l].map}
LayerKeys == UNION {DOMAIN call.layers[l].map : l \in OkLayers}
\* the data directories that hold a file for the language
FoundLayers == {l \in Layers : call.files[l].st # "absent"}
CommandLayers == {call.trace[i].layer : i \in 1..Len(call.trace)}

\* C1: a key that two or more found layers define has, in the returned map,
\* the value of the highest-priority layer that defines it.
C1_LayerOverride ==
    Returned =>
        \A k \in LayerKeys :
            Cardinality(LayersWithKey(k)) >= 2 =>
                /\ k \in DOMAIN call.map
                /\ call.map[k] = call.layers[Max(LayersWithKey(k))].map[k]

\* two keys collide, each with differing values, and the higher layer won
C1_Witness ==
    /\ Returned
    /\ \E k1, k2 \in LayerKeys :
          /\ k1 # k2
          /\ \A k \in {k1, k2} :
                \E lo, hi \in LayersWithKey(k) :
                    /\ lo < hi
                    /\ hi = Max(LayersWithKey(k))
                    /\ call.layers[lo].map[k] # call.layers[hi].map[k]
                    /\ call.map[k] = call.layers[hi].map[k]

\* C2: the returned map has exactly the keys of the found layers' maps, and
\* a key of a single layer keeps that layer's value.
C2_KeysPreserved ==
    Returned =>
        /\ DOMAIN call.map = LayerKeys
        /\ \A k \in LayerKeys :
              Cardinality(LayersWithKey(k)) = 1 =>
                  call.map[k] = call.layers[Max(LayersWithKey(k))].map[k]

\* two layers each contribute a key the other lacks, a third key collides
C2_Witness ==
    /\ Returned
    /\ \E lo, hi \in OkLayers :
          /\ lo < hi
          /\ \E k \in DOMAIN call.layers[lo].map :
                LayersWithKey(k) = {lo} /\ call.map[k] = call.layers[lo].map[k]
          /\ \E k \in DOMAIN call.layers[hi].map :
                LayersWithKey(k) = {hi} /\ call.map[k] = call.layers[hi].map[k]
          /\ \E k \in LayerKeys : {lo, hi} \subseteq LayersWithKey(k)

\* C4 as claimed: a file that fails to parse is skipped like an absent one:
\* nothing is thrown for it and the directories after it are still visited.
C4_ParseFailureSkipped ==
    Applied =>
        \A l \in Layers :
            (/\ call.files[l].st = "unparseable"
             /\ \A j \in 1..(l - 1) : call.layers[j].st # "threw")
            => /\ call.layers[l].st = "skipped"
               /\ l \notin CommandLayers
               /\ \A j \in (l + 1)..NumDataDirectories :
                     call.layers[j].st # "unreached"

\* C5 as claimed: a document in exactly one directory always yields that
\* directory's map, without error.
C5_SingleLayerAlwaysSucceeds ==
    (Applied /\ Cardinality(FoundLayers) = 1) =>
        /\ call.exc = NoExc
        /\ call.map = call.layers[Max(FoundLayers)].map
        /\ CommandLayers \subseteq {0} \cup FoundLayers

\* C5 amended: with a document in exactly one directory, every command
\* after the reset is that directory's; the call returns exactly that
\* directory's map when processing it raises no error and otherwise ends
\* with the error raised there.
C5_SingleLayer ==
    (Applied /\ Cardinality(FoundLayers) = 1) =>
        LET l == Max(FoundLayers) IN
        /\ Len(call.trace) >= 1
        /\ call.trace[1].cmd = "SCI_FREESUBSTYLES"
        /\ \A i \in 2..Len(call.trace) : call.trace[i].layer = l
        /\ \A j \in Layers \ {l} : call.layers[j].st \in {"skipped", "unreached"}
        /\ call.layers[l].st = "ok" =>
              /\ call.exc = NoExc
              /\ call.map = call.layers[l].map
              /\ OkLayers = {l}
        /\ call.layers[l].st # "ok" =>
              /\ call.exc # NoExc
              /\ call.excLayer = l

\* the only document is in the third directory and gives a non-empty map
C5_Witness ==
    /\ Applied
    /\ FoundLayers = {3}
    /\ call.exc = NoExc
    /\ call.map = call.layers[3].map
    /\ DOMAIN call.map # {}
    /\ Len(call.trace) > 1

BadLexer(file) ==
    /\ file.st = "doc"
    /\ AsIntExc(Get(file.node, "lexer")) # NoExc
    /\ AsStringExc(Get(file.node, "lexer")) # NoExc

\* C9: a found document whose lexer is absent or neither int nor string
\* ends the call with an error; no directory after the failing one is
\* visited; the failing directory is never one without a file.
C9_BadLexerPropagates ==
    Applied =>
        /\ (\E l \in Layers : BadLexer(call.files[l])) =>
              /\ call.exc # NoExc
              /\ call.excLayer <= Min({l \in Layers : BadLexer(call.files[l])})
        /\ \A l \in Layers :
              (BadLexer(call.files[l]) /\ call.excLayer = l) =>
                  call.exc \in {"InvalidNode", "TypedBadConversion<string>"}
        /\ call.exc # NoExc =>
              /\ call.excLayer \in FoundLayers
              /\ \A j \in (call.excLayer + 1)..NumDataDirectories :
                    call.layers[j].st = "unreached" /\ j \notin CommandLayers

\* a well-formed first layer ran, the second has a sequence as lexer and
\* threw, and the documents of the third and fourth were never applied
C9_Witness ==
    /\ Applied
    /\ call.layers[1].st = "ok"
    /\ BadLexer(call.files[2])
    /\ call.excLayer = 2
    /\ call.exc = "TypedBadConversion<string>"
    /\ call.files[3].st = "doc" /\ call.files[4].st = "absent"
    /\ CommandLayers = {0, 1}

\* reading a document the way its author wrote it
RECURSIVE FindIntKey(_, _, _)
FindIntKey(pairs, class, i) ==
    IF i > Len(pairs) THEN Undef
    ELSE IF pairs[i][1].kind = "int" /\ pairs[i][1].n = class THEN pairs[i][2]
    ELSE FindIntKey(pairs, class, i + 1)

DocGroup(file, section, class) ==
    IF file.st = "doc" /\ IsMap(Get(file.node, section))
    THEN FindIntKey(Get(file.node, section).pairs, class, 1)
    ELSE Undef

Classes == {20, 21}

\* the SCI_ALLOCATESUBSTYLES commands a directory's document sent for a class
AllocCmds(l, class) ==
    {i \in 1..Len(call.trace) :
        /\ call.trace[i].layer = l
        /\ call.trace[i].cmd = "SCI_ALLOCATESUBSTYLES"
        /\ call.trace[i].base = class}
StartFor(l, class) ==
    IF AllocCmds(l, class) = {} THEN 0
    ELSE call.trace[Min(AllocCmds(l, class))].start

\* C3 as claimed: with an identifier group and a substyle group of the same
\* length N for a class and allocation start S, the layer's map holds
\* (S+i, vi) for every i, whatever else the document holds.
C3_SubstyleAddressing ==
    Applied =>
        \A l \in OkLayers, class \in Classes :
            LET ids == DocGroup(call.files[l], "identifiers", class)
                subs == DocGroup(call.files[l], "substyles", class)
            IN  (/\ IsSequence(ids) /\ IsSequence(subs)
                 /\ Size(ids) = Size(subs)
                 /\ AllocCmds(l, class) # {})
                => \A i \in 0..(Size(ids) - 1) :
                      /\ StartFor(l, class) + i \in DOMAIN call.layers[l].map
                      /\ call.layers[l].map[StartFor(l, class) + i] = AsInt(At(subs, i))

\* node is a scalar that as<int>() converts to v
HasValue(node, v) == node.kind = "int" /\ node.n = v

DirectStyle(file, k, v) ==
    /\ file.st = "doc"
    /\ IsMap(Get(file.node, "styles"))
    /\ \E j \in 1..Len(Get(file.node, "styles").pairs) :
          /\ HasValue(Get(file.node, "styles").pairs[j][1], k)
          /\ HasValue(Get(file.node, "styles").pairs[j][2], v)

SubstyleDerived(l, file, k, v) ==
    /\ file.st = "doc"
    /\ IsMap(Get(file.node, "substyles"))
    /\ \E j \in 1..Len(Get(file.node, "substyles").pairs) :
          LET group == Get(file.node, "substyles").pairs[j] IN
          /\ IsSequence(group[2])
          /\ \E i \in 0..(Size(group[2]) - 1) :
                /\ HasValue(At(group[2], i), v)
                /\ k = StartFor(l, AsInt(group[1])) + i

AllAllocCmds == {i \in 1..Len(call.trace) : call.trace[i].cmd = "SCI_ALLOCATESUBSTYLES"}

\* C6: in a call that follows another call on the same editor, no sub-style
\* allocation is live when the first directory is processed, every
\* allocation of the call follows its reset, every entry of the returned map
\* is a direct style of one of the call's documents or a substyle-group
\* element placed at a start allocated in this call, and an entry shared
\* with the previous call's map is produced by one of this call's layers.
C6_NoStaleSubstyles ==
    (Applied /\ prevCall.lang # "") =>
        /\ call.liveAtFirst = {}
        /\ Len(call.trace) >= 1
        /\ call.trace[1].cmd = "SCI_FREESUBSTYLES"
        /\ \A i \in AllAllocCmds :
              /\ i > 1
              /\ call.trace[i].start >= FirstSubstyle
              /\ \A j \in AllAllocCmds :
                    j < i => call.trace[j].start + call.trace[j].count
                                <= call.trace[i].start
        /\ call.exc = NoExc =>
              \A k \in DOMAIN call.map :
                  /\ \E l \in FoundLayers :
                        \/ DirectStyle(call.files[l], k, call.map[k])
                        \/ SubstyleDerived(l, call.files[l], k, call.map[k])
                  /\ (k \in DOMAIN prevCall.map /\ prevCall.map[k] = call.map[k]) =>
                        \E l \in OkLayers :
                            /\ k \in DOMAIN call.layers[l].map
                            /\ call.layers[l].map[k] = call.map[k]

\* cpp allocated sub-styles and mapped the first of them; python, applied
\* next, allocated again from the first sub-style id and maps it otherwise
C6_Witness ==
    /\ Applied
    /\ prevCall.lang = "cpp" /\ call.lang = "python"
    /\ prevCall.exc = NoExc /\ call.exc = NoExc
    /\ \E i \in 1..Len(prevCall.trace) : prevCall.trace[i].cmd = "SCI_ALLOCATESUBSTYLES"
    /\ \E i \in AllAllocCmds : call.trace[i].start = FirstSubstyle
    /\ FirstSubstyle \in DOMAIN prevCall.map
    /\ FirstSubstyle \in DOMAIN call.map
    /\ prevCall.map[FirstSubstyle] # call.map[FirstSubstyle]
    /\ FirstSubstyle + 1 \in DOMAIN prevCall.map
    /\ FirstSubstyle + 1 \notin DOMAIN call.map

-----------------------------------------------------------------------------
(* Properties of the catalog *)

Lists(entry, ext) == \E i \in 1..Len(entry.extensions) : entry.extensions[i] = ext
\* the applied catalog entries that list an extension / define a language
Listers(ext) == {i \in 1..Len(processed) : Lists(processed[i], ext)}
Definers(id) == {i \in 1..Len(processed) : processed[i].name = id}
LanguageIds == {"c", "cpp", "python"}

\* C7: the extension index maps every extension to the language of the
\* last processed entry that lists it (so the entry of a higher-priority
\* layer beats the one of a lower layer), and GetLanguageForExtension
\* returns that language with the found indicator true.
C7_ExtensionPrecedence ==
    /\ \A ext \in Extensions :
          IF Listers(ext) = {} THEN ext \notin DOMAIN sExtensions
          ELSE /\ ext \in DOMAIN sExtensions
               /\ sExtensions[ext] = processed[Max(Listers(ext))].name
    /\ (op.name = "GetLanguageForExtension" /\ Listers(lookup.ext) # {}) =>
          /\ lookup.found
          /\ lookup.lang = processed[Max(Listers(lookup.ext))].name

\* h is listed by cpp in a lower layer and by c in a higher one, and the
\* lookup of h returned c
C7_Witness ==
    /\ op.name = "GetLanguageForExtension"
    /\ lookup = [ext |-> "h", lang |-> "c", found |-> TRUE]
    /\ \E i, j \in Listers("h") :
          /\ processed[i].layer < processed[j].layer
          /\ processed[i].name = "cpp" /\ processed[j].name = "c"
          /\ j = Max(Listers("h"))

MappedTo(id) == {ext \in DOMAIN sExtensions : sExtensions[ext] = id}
ListedBy(entry) == {entry.extensions[i] : i \in 1..Len(entry.extensions)}

\* C8 as claimed: for a language defined in more than one layer, the
\* extensions mapped to it are exactly those its last definition lists.
C8_ExtensionSetOverwritten ==
    \A id \in LanguageIds :
        (\E i, j \in Definers(id) : processed[i].layer # processed[j].layer) =>
            /\ sMenuItems[id] = processed[Max(Definers(id))].menuitem
            /\ MappedTo(id) = ListedBy(processed[Max(Definers(id))])

\* C8 amended: for a language defined in more than one layer, the display
\* name is that of its last processed definition; its extensions are never
\* removed from the index: an extension maps to the language exactly when
\* some definition of the language lists it and no entry of another
\* language processed later lists it.
C8_NameOverwrittenExtensionsKept ==
    \A id \in LanguageIds :
        (\E i, j \in Definers(id) : processed[i].layer # processed[j].layer) =>
            /\ sMenuItems[id] = processed[Max(Definers(id))].menuitem
            /\ \A ext \in Extensions :
                  ext \in MappedTo(id) <=>
                      \E i \in Definers(id) :
                          /\ Lists(processed[i], ext)
                          /\ \A j \in (i + 1)..Len(processed) :
                                Lists(processed[j], ext) => processed[j].name = id

\* cpp is defined as C++ with h and cc, then in a higher layer as C/C++
\* with cc only: the name is the later one and h still maps to cpp
C8_Witness ==
    /\ \E i, j \in Definers("cpp") :
          /\ processed[i].layer < processed[j].layer
          /\ j = Max(Definers("cpp"))
          /\ processed[i].menuitem # processed[j].menuitem
          /\ Lists(processed[i], "h") /\ ~Lists(processed[j], "h")
    /\ sMenuItems["cpp"] = "C/C++"
    /\ MappedTo("cpp") = {"h", "cc"}

\* C10: a GetLanguageForExtension step returns the mapped language and
\* true for an extension of the index, "text" and false for any other, and
\* changes neither the index, nor the display names, nor the language list.
C10_LookupIsPure ==
    [][op'.name = "GetLanguageForExtension" =>
        /\ lookup' = IF lookup'.ext \in DOMAIN sExtensions
                     THEN [ext |-> lookup'.ext, lang |-> sExtensions[lookup'.ext],
                           found |-> TRUE]
                     ELSE [ext |-> lookup'.ext, lang |-> "text", found |-> FALSE]
        /\ sExtensions' = sExtensions
        /\ sMenuItems' = sMenuItems
        /\ sLanguages' = sLanguages]_vars

\* an extension missing from a non-empty index was looked up
C10_Witness ==
    /\ op.name = "GetLanguageForExtension"
    /\ sExtensions # EmptyMap
    /\ lookup.ext \notin DOMAIN sExtensions
    /\ lookup = [ext |-> lookup.ext, lang |-> "text", found |-> FALSE]
    /\ Len(sLanguages) >= 2

-----------------------------------------------------------------------------
(* Properties of the ordered language list *)

ElementsOf(seq) == {seq[i] : i \in 1..Len(seq)}
NoDuplicates(seq) == \A i, j \in 1..Len(seq) : seq[i] = seq[j] => i = j
IsPrefix(a, b) == Len(a) <= Len(b) /\ SubSeq(b, 1, Len(a)) = a

\* the language ids of the first n applied entries, in order of first
\* appearance
RECURSIVE FirstAppearance(_, _)
FirstAppearance(log, n) ==
    IF n = 0 THEN <<>>
    ELSE IF \E j \in 1..(n - 1) : log[j].name = log[n].name
    THEN FirstAppearance(log, n - 1)
    ELSE Append(FirstAppearance(log, n - 1), log[n].name)

\* C11: across LoadLanguages runs the ordered list has no duplicate, holds
\* the ids of the applied entries in order of first appearance (whatever
\* later entries redefine), and a run only appends to it.
C11_FirstAppearanceOrder ==
    /\ [](/\ NoDuplicates(sLanguages)
          /\ sLanguages = FirstAppearance(processed, Len(processed)))
    /\ [][/\ IsPrefix(sLanguages, sLanguages')
          /\ Len(sLanguages') - Len(sLanguages) <= Len(processed') - Len(processed)]_vars

\* cpp came first, python and c later, and a higher layer then redefined
\* cpp: the list is still cpp, python, c
C11_Witness ==
    /\ sLanguages = <<"cpp", "python", "c">>
    /\ \E i, j \in Definers("cpp") :
          /\ i = 1 /\ j = Len(processed)
          /\ processed[i].layer < processed[j].layer
          /\ processed[i].menuitem # processed[j].menuitem

\* C20: the ids of the ordered list are exactly the ids with a display
\* name, and every language the extension index maps to is in the list,
\* also after a LoadLanguages run that a schema failure ended partway.
C20_CatalogConsistent ==
    /\ ElementsOf(sLanguages) = DOMAIN sMenuItems
    /\ \A ext \in DOMAIN sExtensions : sExtensions[ext] \in ElementsOf(sLanguages)
    /\ ElementsOf(sLanguages) = {processed[i].name : i \in 1..Len(processed)}

\* a run stopped at the entry without extensions after applying the one
\* before it, and the list was sorted afterwards
C20_Witness ==
    /\ op.name = "SortAlphabetically"
    /\ loads >= 1
    /\ \E l \in Layers :
          /\ catalogFiles[l] = CatalogBroken
          /\ \A j \in 1..(l - 1) : catalogFiles[j] \in {AbsentFile, CatalogCpp}
          /\ catalogFiles[1] = CatalogCpp
    /\ sLanguages = <<"c", "cpp">>
    /\ DOMAIN sMenuItems = {"c", "cpp"}
    /\ sExtensions["h"] = "c"

-----------------------------------------------------------------------------
(* Properties of sub-style allocation *)

\* an entry that a substyle group of a class with an identifier group gives
AnchoredDerived(l, file, k, v) ==
    /\ file.st = "doc"
    /\ IsMap(Get(file.node, "substyles"))
    /\ \E j \in 1..Len(Get(file.node, "substyles").pairs) :
          LET group == Get(file.node, "substyles").pairs[j] IN
          /\ IsSequence(group[2])
          /\ IsSequence(DocGroup(file, "identifiers", AsInt(group[1])))
          /\ \E i \in 0..(Size(group[2]) - 1) :
                /\ HasValue(At(group[2], i), v)
                /\ k = StartFor(l, AsInt(group[1])) + i

\* C12 as claimed: a substyle group of a class without identifier group
\* adds nothing: every entry of a layer's map is a direct style or comes
\* from a substyle group whose class has an identifier group.
C12_UnanchoredGroupIgnored ==
    Applied =>
        \A l \in OkLayers :
            \A k \in DOMAIN call.layers[l].map :
                \/ DirectStyle(call.files[l], k, call.layers[l].map[k])
                \/ AnchoredDerived(l, call.files[l], k, call.layers[l].map[k])

\* C19 as claimed: an entry a layer derives from the substyle group of a
\* class with an identifier group of length N lies in [start, start + N),
\* also when the two groups differ in length (stated for N >= 1).
C19_SubstyleKeysInRange ==
    Applied =>
        \A l \in OkLayers, class \in Classes :
            LET ids == DocGroup(call.files[l], "identifiers", class)
                subs == DocGroup(call.files[l], "substyles", class)
            IN  (IsSequence(ids) /\ Size(ids) >= 1 /\ IsSequence(subs)) =>
                    \A i \in 0..(Size(subs) - 1) :
                        (/\ StartFor(l, class) + i \in DOMAIN call.layers[l].map
                         /\ call.layers[l].map[StartFor(l, class) + i] = AsInt(At(subs, i))
                         /\ ~DirectStyle(call.files[l], StartFor(l, class) + i,
                                         AsInt(At(subs, i))))
                        => i < Size(ids)

IdentCmds(l) ==
    {i \in 1..Len(call.trace) :
        call.trace[i].layer = l /\ call.trace[i].cmd = "SCI_SETIDENTIFIERS"}

\* C17: a processed layer sends SCI_ALLOCATESUBSTYLES exactly once for
\* each class whose identifier group is a sequence, with the group's
\* length as count, and never otherwise; the allocations of two layers for
\* one class are disjoint, and the higher layer's SCI_SETIDENTIFIERS
\* commands and substyle entries stay out of the lower layer's range.
C17_OneAllocationPerLayerAndClass ==
    Applied =>
        /\ \A i \in AllAllocCmds : call.trace[i].base \in Classes
        /\ \A l \in Layers, class \in Classes :
              LET ids == DocGroup(call.files[l], "identifiers", class) IN
              IF l \in OkLayers /\ IsSequence(ids)
              THEN /\ Cardinality(AllocCmds(l, class)) = 1
                   /\ call.trace[Min(AllocCmds(l, class))].count = Size(ids)
              ELSE AllocCmds(l, class) = {}
        /\ \A lo, hi \in OkLayers, class \in Classes :
              (lo < hi /\ AllocCmds(lo, class) # {} /\ AllocCmds(hi, class) # {}) =>
                  LET loCmd == call.trace[Min(AllocCmds(lo, class))]
                      hiCmd == call.trace[Min(AllocCmds(hi, class))]
                      loRange == loCmd.start..(loCmd.start + loCmd.count - 1)
                  IN  /\ Min(AllocCmds(lo, class)) < Min(AllocCmds(hi, class))
                      /\ loCmd.start + loCmd.count <= hiCmd.start
                      /\ \A i \in IdentCmds(hi) : call.trace[i].style \notin loRange
                      /\ \A k \in DOMAIN call.layers[hi].map :
                            DirectStyle(call.files[hi], k, call.layers[hi].map[k])
                            \/ k \notin loRange

\* the first two layers both give class 20 two identifiers: two
\* allocations, and the second layer's entries sit on its own start
C17_Witness ==
    /\ Applied
    /\ {1, 2} \subseteq OkLayers
    /\ Size(DocGroup(call.files[1], "identifiers", 20)) = 2
    /\ Size(DocGroup(call.files[2], "identifiers", 20)) = 2
    /\ StartFor(1, 20) = FirstSubstyle
    /\ StartFor(2, 20) = FirstSubstyle + 2
    /\ FirstSubstyle + 2 \in DOMAIN call.layers[2].map
    /\ FirstSubstyle \notin DOMAIN call.layers[2].map
    /\ call.files[4] = DocScalarGroup
    /\ 4 \in OkLayers
    /\ AllocCmds(4, 20) = {} /\ AllocCmds(4, 21) # {}

\* C18: every SCI_SETIDENTIFIERS follows, in its layer, the
\* SCI_ALLOCATESUBSTYLES of its class and targets start + position, the
\* positions 0..N-1 being used once each in sequence order; and every
\* substyle entry of a layer's map is placed on the start the layer's
\* allocation returned (0 when the class has none).
C18_IdentifiersInsideAllocation ==
    Applied =>
        /\ \A a \in AllAllocCmds :
              call.trace[a].layer \in OkLayers =>
                  \A p \in 1..call.trace[a].count :
                      /\ a + p <= Len(call.trace)
                      /\ call.trace[a + p].cmd = "SCI_SETIDENTIFIERS"
                      /\ call.trace[a + p].layer = call.trace[a].layer
                      /\ call.trace[a + p].style = call.trace[a].start + p - 1
                      /\ call.trace[a + p].text =
                            AsString(At(DocGroup(call.files[call.trace[a].layer],
                                                 "identifiers", call.trace[a].base),
                                        p - 1))
        /\ \A l \in Layers :
              \A i \in IdentCmds(l) :
                  \E a \in AllAllocCmds :
                      /\ a < i /\ i - a <= call.trace[a].count
                      /\ call.trace[a].layer = l
        /\ \A l \in OkLayers :
              \A k \in DOMAIN call.layers[l].map :
                  \/ DirectStyle(call.files[l], k, call.layers[l].map[k])
                  \/ SubstyleDerived(l, call.files[l], k, call.layers[l].map[k])

\* the second layer allocated two sub-styles after the first layer had
\* allocated some, bound both identifiers and mapped both
C18_Witness ==
    /\ Applied
    /\ {1, 2} \subseteq OkLayers
    /\ \E a \in AllocCmds(2, 20) :
          /\ call.trace[a].start > FirstSubstyle
          /\ call.trace[a].count = 2
          /\ call.trace[a + 1].style = call.trace[a].start
          /\ call.trace[a + 2].style = call.trace[a].start + 1
          /\ call.trace[a + 1].text = "a" /\ call.trace[a + 2].text = "b"
          /\ call.trace[a].start \in DOMAIN call.layers[2].map
          /\ call.trace[a].start + 1 \in DOMAIN call.layers[2].map

-----------------------------------------------------------------------------
(* Order and kind of the commands of one call *)

ResetIdx == {i \in 1..Len(call.trace) : call.trace[i].cmd = "SCI_FREESUBSTYLES"}

\* C13: in the command trace of one ApplyLanguage call the sub-style reset
\* occurs exactly once and is the first command, whichever directories hold
\* a file (none included) and however the call ends.
C13_ResetOnceAndFirst ==
    Applied =>
        /\ Cardinality(ResetIdx) = 1
        /\ \A i \in ResetIdx : i = 1 /\ call.trace[i].layer = 0
        /\ \A i \in 2..Len(call.trace) : call.trace[i].layer \in FoundLayers

\* files in the second and fourth directory only, both applied, the reset
\* ahead of their commands
C13_Witness ==
    /\ Returned
    /\ FoundLayers = {2, 4}
    /\ ResetIdx = {1}
    /\ {2, 4} \subseteq CommandLayers
    /\ Len(call.trace) >= 3

LexerCmdNames == {"SCI_SETLEXER", "SCI_SETLEXERLANGUAGE"}
LexerIdx == {i \in 1..Len(call.trace) : call.trace[i].cmd \in LexerCmdNames}
LexerLayers == {call.trace[i].layer : i \in LexerIdx}
LexerOf(file) == IF file.st = "doc" THEN Get(file.node, "lexer") ELSE Undef
\* the editor's lexer selection a command leaves
SelectionOf(c) ==
    IF c.cmd = "SCI_SETLEXER" THEN [byId |-> TRUE, id |-> c.id, name |-> ""]
    ELSE [byId |-> FALSE, id |-> 0, name |-> c.name]

\* C14: the lexer commands of one call come in directory order, at most one
\* per directory; a command is by id with the document's number when the
\* lexer field is an int and by name with its text otherwise; a
\* directory whose document is processed and has a convertible lexer issues
\* one; a call that returns has issued exactly one per found directory and
\* leaves the editor with the selection of the highest-priority found one.
C14_OneLexerCommandPerLayer ==
    Applied =>
        /\ \A i, j \in LexerIdx :
              i < j => call.trace[i].layer < call.trace[j].layer
        /\ \A i \in LexerIdx :
              LET c == call.trace[i]
                  lexer == LexerOf(call.files[c.layer])
              IN  /\ c.layer \in FoundLayers
                  /\ c.cmd = "SCI_SETLEXER" =>
                        lexer.kind = "int" /\ c.id = lexer.n
                  /\ c.cmd = "SCI_SETLEXERLANGUAGE" =>
                        /\ lexer.kind \in {"str", "null"}
                        /\ c.name = AsString(lexer)
        /\ \A l \in Layers :
              (/\ call.layers[l].st \in {"ok", "threw"}
               /\ LexerOf(call.files[l]).kind \in {"int", "str", "null"})
              => l \in LexerLayers
        /\ call.exc = NoExc =>
              /\ LexerLayers = FoundLayers
              /\ Cardinality(LexerIdx) = Cardinality(FoundLayers)
              /\ FoundLayers # {} =>
                    \E i \in LexerIdx :
                        /\ call.trace[i].layer = Max(FoundLayers)
                        /\ editor.lexer = SelectionOf(call.trace[i])

\* three found directories, lexers by id, by name and by id again; the
\* editor ends with the last one's id
C14_Witness ==
    /\ Returned
    /\ FoundLayers = {1, 3, 4}
    /\ LexerOf(call.files[1]).kind = "int"
    /\ LexerOf(call.files[3]).kind = "str"
    /\ LexerOf(call.files[4]).kind = "int"
    /\ Cardinality(LexerIdx) = 3
    /\ editor.lexer = [byId |-> TRUE, id |-> LexerOf(call.files[4]).n, name |-> ""]

-----------------------------------------------------------------------------
(* Comment tokens *)

\* {lexer: 1, comments: {line: "//"}}
DocLineComment ==
    Doc(<<Field("lexer", IntNode(1)),
          Field("comments", MapNode(<<Field("line", StrNode("//"))>>))>>)
\* {lexer: 1, comments: {line: "//", block: <block>}}
CommentDoc(block) ==
    Doc(<<Field("lexer", IntNode(1)),
          Field("comments", MapNode(<<Field("line", StrNode("//")),
                                      Field("block", block)>>))>>)
\* block values: a scalar, sequences of 0, 1, 2 and 3 strings, and a
\* sequence whose only element is itself a sequence
BlockValues ==
    {StrNode("/*"), StrSeq(<<>>), StrSeq(<<"/*">>), StrSeq(<<"/*", "*/">>),
     StrSeq(<<"/*", "*/", "#">>), SeqNode(<<StrSeq(<<"a">>)>>)}
CommentFiles == {AbsentFile, DocLineComment} \cup {CommentDoc(b) : b \in BlockValues}

\* ApplyLanguage on documents with a comments section
InitComments ==
    /\ InitProgram
    /\ \E cpp \in [Layers -> CommentFiles] :
          files = [lang \in Langs |-> IF lang = "cpp" THEN cpp ELSE NoFiles]
    /\ catalogFiles = NoFiles
SpecComments == InitComments /\ [][NextApply]_vars

BlockOf(file) ==
    IF file.st = "doc" THEN Get(Get(file.node, "comments"), "block") ELSE Undef
BlockCmds(l) ==
    {i \in 1..Len(call.trace) :
        call.trace[i].layer = l /\ call.trace[i].cmd = "SetCommentBlockTokens"}

\* C16 as claimed: a comments.block that is not a sequence, or a sequence
\* of a length other than 2, is ignored: its layer issues no block-comment
\* command and is processed without error; the command is issued only for
\* a two-element sequence, with its two strings.
C16_WrongArityIgnored ==
    Applied =>
        \A l \in Layers :
            (call.files[l].st = "doc" /\ call.layers[l].st \in {"ok", "threw"}) =>
                LET block == BlockOf(call.files[l])
                    two == IsSequence(block) /\ Size(block) = 2
                IN  /\ ~two => BlockCmds(l) = {} /\ call.layers[l].st = "ok"
                    /\ \A i \in BlockCmds(l) :
                          /\ two
                          /\ call.trace[i].open = AsString(At(block, 0))
                          /\ call.trace[i].close = AsString(At(block, 1))

-----------------------------------------------------------------------------
(* Properties and keyword sets *)

StrMap(ps) == MapNode([i \in 1..Len(ps) |-> <<StrNode(ps[i][1]), StrNode(ps[i][2])>>])
KeywordMap(ps) == MapNode([i \in 1..Len(ps) |-> <<IntNode(ps[i][1]), StrNode(ps[i][2])>>])

\* {lexer: 1, properties: {fold: "1", tab: 12}, keywords: {0: "if else"}}
DocPropsLow ==
    Doc(<<Field("lexer", IntNode(1)),
          Field("properties", MapNode(<<Field("fold", StrNode("1")),
                                        Field("tab", IntNode(12))>>)),
          Field("keywords", KeywordMap(<<<<0, "if else">>>>))>>)
\* {lexer: 1, properties: {fold: "0"}, keywords: {1: "int"}}
DocPropsHigh ==
    Doc(<<Field("lexer", IntNode(1)),
          Field("properties", StrMap(<<<<"fold", "0">>>>)),
          Field("keywords", KeywordMap(<<<<1, "int">>>>))>>)
\* {lexer: 1, keywords: {0: "for", 1: "char"}}
DocKeywords ==
    Doc(<<Field("lexer", IntNode(1)),
          Field("keywords", KeywordMap(<<<<0, "for">>, <<1, "char">>>>))>>)
\* {lexer: 2, properties: {fold: "2", wrap: 01}, keywords: {0: "def", 2: "x"}}
DocPyProps ==
    Doc(<<Field("lexer", IntNode(2)),
          Field("properties", MapNode(<<Field("fold", StrNode("2")),
                                        Field("wrap", IntScalar("01", 1))>>)),
          Field("keywords", KeywordMap(<<<<0, "def">>, <<2, "x">>>>))>>)

PropFiles == {AbsentFile, DocBare, DocPropsLow, DocPropsHigh, DocKeywords}
PropNames == {"fold", "tab", "wrap"}
KeywordSets == {0, 1, 2}

\* ApplyLanguage for two languages whose documents set properties and
\* keyword sets, on the same editor
InitProps ==
    /\ InitProgram
    /\ \E cpp \in [Layers -> PropFiles], second \in {AbsentFile, DocPropsHigh} :
          files = [lang \in Langs |->
                      IF lang = "cpp" THEN cpp
                      ELSE [l \in Layers |-> IF l = 1 THEN DocPyProps
                                             ELSE IF l = 2 THEN second
                                             ELSE AbsentFile]]
    /\ catalogFiles = NoFiles
SpecProps == InitProps /\ [][NextApply]_vars

DocProperty(file, name) ==
    IF file.st = "doc" THEN Get(Get(file.node, "properties"), name) ELSE Undef
DocKeyword(file, num) == DocGroup(file, "keywords", num)
\* m and its successor agree on key k
SameAt(m, next, k) ==
    /\ (k \in DOMAIN next) <=> (k \in DOMAIN m)
    /\ k \in DOMAIN m => next[k] = m[k]

\* one returning ApplyLanguage step sets every property name and keyword-set
\* index to the value of the highest-priority found layer that defines it
\* and leaves those that no found layer defines as they were
C15_Step ==
    (op'.name = "ApplyLanguage" /\ call'.exc = NoExc) =>
        /\ \A name \in PropNames :
              LET definers == {l \in Layers :
                                  IsDefined(DocProperty(call'.files[l], name))}
              IN  IF definers = {}
                  THEN SameAt(editor.props, editor'.props, name)
                  ELSE /\ name \in DOMAIN editor'.props
                       /\ editor'.props[name] =
                            AsString(DocProperty(call'.files[Max(definers)], name))
        /\ \A num \in KeywordSets :
              LET definers == {l \in Layers :
                                  IsDefined(DocKeyword(call'.files[l], num))}
              IN  IF definers = {}
                  THEN SameAt(editor.keywords, editor'.keywords, num)
                  ELSE /\ num \in DOMAIN editor'.keywords
                       /\ editor'.keywords[num] =
                            AsString(DocKeyword(call'.files[Max(definers)], num))

\* C15: after ApplyLanguage the editor's value of each property name and of
\* each keyword-set index is that of the highest-priority found layer that
\* defines it; a higher layer that omits it leaves the lower layer's value,
\* and a name no found layer defines keeps its value from before the call.
C15_LastDefinerWins == [][C15_Step]_vars

\* after python, cpp was applied from the first and third directory: fold
\* is the third's, tab (omitted by the third) the first's, wrap (in no cpp
\* layer) still python's; likewise keyword sets 1, 0 and 2
C15_Witness ==
    /\ Returned
    /\ call.lang = "cpp"
    /\ prevCall.lang = "python"
    /\ call.files[1] = DocPropsLow
    /\ call.files[3] = DocPropsHigh
    /\ FoundLayers = {1, 3}
    /\ PropNames \subseteq DOMAIN editor.props
    /\ editor.props["fold"] = "0"
    /\ editor.props["tab"] = "12"
    /\ editor.props["wrap"] = "01"
    /\ KeywordSets \subseteq DOMAIN editor.keywords
    /\ editor.keywords[1] = "int"
    /\ editor.keywords[0] = "if else"
    /\ editor.keywords[2] = "x"

====
